---- MODULE Spec2Model ----
(***************************************************************************)
(* A model of the black-box opcode resolver, the Merkle authentication     *)
(* path verifier and the witness flatteners of acvm-backend-barretenberg.  *)
(*                                                                         *)
(*   acvm_backend_barretenberg/src/acvm_interop/pwg.rs                     *)
(*       solve_black_box_function_call, calculate_merkle_root,             *)
(*       tests::test_check_membership, tests::simple_shield                *)
(*   src/acvm_interop/proof_system.rs                                      *)
(*       black_box_function_supported, flatten_witness_map,                *)
(*       verify_with_vk, proof_as_fields, vk_as_fields                     *)
(*   barretenberg_browser_stopgap_wasm/src/lib.rs                          *)
(*       solve_intermediate_witness, public_input_as_bytes,                *)
(*       intermediate_witness_to_assignment_bytes                          *)
(*                                                                         *)
(* The native engine (compress_native, verify_signature, encrypt,          *)
(* fixed_base, Blake2s) is outside the repository: each primitive is a     *)
(* fixed deterministic function over the small field of the model.         *)
(***************************************************************************)
EXTENDS Integers, Sequences, FiniteSets

VARIABLES
    initial_witness,  \* the BTreeMap<Witness, FieldElement> the solver owns
    func_call,        \* the BlackBoxFuncCall being resolved
    result,           \* what solve_black_box_function_call ended with
    prev_witness,     \* initial_witness as it was when the call was made
    reads,            \* the witnesses the call looked up in the map
    pc,               \* the solver loop: "idle", "called", "returned"
    call_fn,          \* the pure function last applied ("none" before)
    call_args,        \* its arguments
    call_out,         \* its return value
    js_return,        \* what solve_intermediate_witness handed back
    opcode_failed,    \* whether an opcode of this solve failed to resolve
    tree              \* the leaves of the Merkle tree of the tests

vars == <<initial_witness, func_call, result, prev_witness, reads, pc,
          call_fn, call_args, call_out, js_return, opcode_failed, tree>>

solveVars == <<initial_witness, func_call, result, prev_witness, reads, pc,
               js_return, opcode_failed>>
pureVars == <<call_fn, call_args, call_out, tree>>

(***************************************************************************)
(* Bounds.  The build's widths (a 256-bit, 32-byte field element, a        *)
(* 64-byte signature) are kept as parameters and scaled down.              *)
(***************************************************************************)
\* Witness indices are 1..MaxWitness.
MaxWitness == 3
\* The field is the integers modulo Modulus.
Modulus == 3
\* The length of FieldElement::bits() (256 in the build).
FieldBits == 2
\* The length of FieldElement::to_be_bytes() (32 in the build).
FieldBytes == 2
\* The number of signature bytes SchnorrVerify reads (64 in the build).
SigLen == 1
\* The longest input list and output list of a call.
MaxInputs == 6
MaxOutputs == 2
\* The longest hash path and the largest variable count of the pure calls.
MaxPath == 3
MaxVars == 5
\* The longest byte output of the engine, in field-element chunks.
MaxChunks == 3
\* The depth of the tests' Merkle tree (3 in the tests; at most FieldBits
\* here, so that every index has its bits) and its largest message.
TreeDepth == 2
MaxMessage == 1

Witness == 1..MaxWitness
FieldElement == 0..(Modulus - 1)
Zero == 0
One == 1

\* BTreeMap<Witness, FieldElement>: a function on a finite set of witnesses.
WitnessMaps == UNION {[D -> FieldElement] : D \in SUBSET Witness}
EmptyMap == <<>>

\* BTreeMap::insert: the key is bound to the value, whatever it held before.
insert(map, key, value) ==
    [k \in (DOMAIN map) \cup {key} |-> IF k = key THEN value ELSE map[k]]

Min(S) == CHOOSE x \in S : \A y \in S : x <= y

RECURSIVE SumSeq(_)
SumSeq(s) == IF Len(s) = 0 THEN 0 ELSE Head(s) + SumSeq(Tail(s))

RECURSIVE WeightedSum(_, _)
WeightedSum(s, k) ==
    IF Len(s) = 0 THEN 0 ELSE k * Head(s) + WeightedSum(Tail(s), k + 1)

(***************************************************************************)
(* FieldElement's byte and bit forms.                                      *)
(***************************************************************************)
RECURSIVE Pow(_, _)
Pow(b, e) == IF e = 0 THEN 1 ELSE b * Pow(b, e - 1)

\* to_be_bytes: FieldBytes bytes, most significant first.
to_be_bytes(v) ==
    [i \in 1..FieldBytes |-> (v \div Pow(256, FieldBytes - i)) % 256]

\* *x.to_be_bytes().last().unwrap()
last_byte(v) == to_be_bytes(v)[FieldBytes]

\* bits: FieldBits booleans, most significant first.
bits(v) == [i \in 1..FieldBits |-> (v \div Pow(2, FieldBits - i)) % 2 = 1]

\* Vec::reverse
Reverse(s) == [i \in 1..Len(s) |-> s[Len(s) + 1 - i]]

(***************************************************************************)
(* The engine's primitives.                                                *)
(***************************************************************************)
\* Barretenberg::compress_native: not symmetric in its arguments.
compress_native(left, right) == (2 * left + right + 1) % Modulus

\* Barretenberg::verify_signature over the key, signature and message bytes.
verify_signature(pub_key, signature, message) ==
    (SumSeq(pub_key) + SumSeq(signature) + SumSeq(message)) % 2 = 0

\* Barretenberg::encrypt (Pedersen): a point <<x, y>>.
encrypt(scalars) ==
    <<(WeightedSum(scalars, 1) + 1) % Modulus,
      (WeightedSum(scalars, 2) + 2) % Modulus>>

\* Barretenberg::fixed_base: a point <<x, y>>.
fixed_base(scalar) == <<(scalar + 1) % Modulus, (2 * scalar + 2) % Modulus>>

\* Blake2s over the bytes fed to the hasher, then from_be_bytes_reduce.
blake2s_reduce(bytes) == (WeightedSum(bytes, 1) + Len(bytes) + 1) % Modulus

\* A faulty variant of fetch_nearest_bytes: the whole byte form is fetched.
fetch_all_bytes(v, num_bits) == Reverse(to_be_bytes(v))

\* fetch_nearest_bytes: the ceil(num_bits / 8) low-order bytes, lowest first.
fetch_nearest_bytes(v, num_bits) ==
    LET num_bytes == (num_bits + 7) \div 8
        le == Reverse(to_be_bytes(v))
    IN  [i \in 1..(IF num_bytes < FieldBytes THEN num_bytes ELSE FieldBytes)
            |-> le[i]]

\* FieldElement::from_be_bytes_reduce: the big-endian value of the bytes,
\* reduced modulo the field order.
RECURSIVE be_value(_)
be_value(bytes) ==
    IF Len(bytes) = 0 THEN 0
    ELSE 256 * be_value(SubSeq(bytes, 1, Len(bytes) - 1)) + bytes[Len(bytes)]

from_be_bytes_reduce(bytes) == be_value(bytes) % Modulus

\* FieldElement::to_hex: hex::encode of to_be_bytes, two digits a byte.  A
\* hex string is [prefix, digits]: whether it starts with 0x, and its digits.
to_hex(v) ==
    LET bytes == to_be_bytes(v)
    IN  [i \in 1..(2 * FieldBytes) |->
            IF i % 2 = 1 THEN bytes[(i + 1) \div 2] \div 16
            ELSE bytes[i \div 2] % 16]

\* FieldElement::from_hex: strip 0x, hex::decode (which refuses an odd
\* number of digits), from_be_bytes_reduce.
from_hex(hex_str) ==
    LET digits == hex_str.digits
    IN  IF Len(digits) % 2 = 1 THEN [ok |-> FALSE, value |-> Zero]
        ELSE [ok |-> TRUE,
              value |-> from_be_bytes_reduce(
                  [i \in 1..(Len(digits) \div 2) |->
                      16 * digits[2 * i - 1] + digits[2 * i]])]

\* witness_map_to_js_map: each witness index is bound to "0x" + to_hex(value).
witness_map_to_js_map(witness_map) ==
    [w \in DOMAIN witness_map |->
        [prefix |-> TRUE, digits |-> to_hex(witness_map[w])]]

(***************************************************************************)
(* Results of a resolution.                                                *)
(***************************************************************************)
NoResult == [tag |-> "None", kind |-> "", witness |-> 0, name |-> ""]
Solved == [tag |-> "Solved", kind |-> "", witness |-> 0, name |-> ""]
\* Err(OpcodeNotSolvable(MissingAssignment(w))), from witness_to_value(..)?
MissingAssignment(w) ==
    [tag |-> "Err", kind |-> "MissingAssignment", witness |-> w, name |-> ""]
\* Err(OpcodeResolutionError::UnsupportedBlackBoxFunc(name))
UnsupportedBlackBoxFunc(n) ==
    [tag |-> "Err", kind |-> "UnsupportedBlackBoxFunc", witness |-> 0,
     name |-> n]
\* expect / unwrap_or_else(panic!) / assert_eq! / an index out of bounds
Panic(msg) == [tag |-> "Panic", kind |-> msg, witness |-> 0, name |-> ""]

Outcome(res, map, rd) == [result |-> res, witness_map |-> map, reads |-> rd]

(***************************************************************************)
(* Reading operands.  witness_to_value(map, w) is Ok(&value) when the map  *)
(* binds w and Err(MissingAssignment(w)) otherwise; every call site        *)
(* applies `?`, so the first missing operand ends the resolution.          *)
(***************************************************************************)
witness_to_value(map, w) ==
    IF w \in DOMAIN map THEN [ok |-> TRUE, value |-> map[w], err |-> NoResult]
    ELSE [ok |-> FALSE, value |-> Zero, err |-> MissingAssignment(w)]

\* A faulty variant of ReadInputs: an operand without a value reads as zero.
ReadInputsZeroFill(map, inputs, from, to) ==
    [missing |-> 0,
     read |-> {inputs[i].witness : i \in from..to},
     values |-> [i \in 1..(to - from + 1) |->
                    IF inputs[from + i - 1].witness \in DOMAIN map
                    THEN map[inputs[from + i - 1].witness] ELSE Zero]]

\* inputs[from..to] looked up in order, stopping at the first Err:
\* `missing` is the witness of that Err (0: none), `read` the witnesses
\* looked up, `values` the values when none is missing.
ReadInputs(map, inputs, from, to) ==
    LET bad == {i \in from..to : ~witness_to_value(map, inputs[i].witness).ok}
        stop == IF bad = {} THEN to ELSE Min(bad)
    IN  [missing |-> IF bad = {} THEN 0 ELSE inputs[stop].witness,
         read |-> {inputs[i].witness : i \in from..stop},
         values |-> IF bad = {}
                    THEN [i \in 1..(to - from + 1) |->
                            witness_to_value(map, inputs[from + i - 1].witness).value]
                    ELSE <<>>]

(***************************************************************************)
(* calculate_merkle_root: the index bits, least significant first, choose  *)
(* the side of `current` at each level of the hash path.                   *)
(***************************************************************************)
\* A faulty variant of index_bits: the bits are not reversed.
index_bits_not_reversed(index) == bits(index)

\* let mut index_bits = index.bits(); index_bits.reverse();
index_bits(index) == Reverse(bits(index))

\* The loop over hash_path.into_iter().enumerate(), from its i-th element
\* (i counts from 1 here); index_bits[i] past the end of the bits panics.
\* hash_func, the closure the caller passes, is a function of two arguments.
RECURSIVE merkle_loop(_, _, _, _, _)
merkle_loop(hash_func, hash_path, ibits, current, i) ==
    IF i > Len(hash_path) THEN [panicked |-> FALSE, value |-> current]
    ELSE IF i > Len(ibits) THEN [panicked |-> TRUE, value |-> Zero]
    ELSE LET path_elem == hash_path[i]
             path_bit == ibits[i]
             hash_left == IF ~path_bit THEN current ELSE path_elem
             hash_right == IF ~path_bit THEN path_elem ELSE current
         IN  merkle_loop(hash_func, hash_path, ibits,
                         hash_func[hash_left, hash_right], i + 1)

calculate_merkle_root(hash_func, hash_path, index, leaf) ==
    merkle_loop(hash_func, hash_path, index_bits(index), leaf, 1)

\* |left, right| bb.compress_native(left, right)
compress_native_closure ==
    [left \in Nat, right \in Nat |-> compress_native(left, right)]

(***************************************************************************)
(* The Merkle tree of the tests (common::merkle::MerkleTree): 2^TreeDepth  *)
(* leaves, a node the compression of its two children.  The tests build    *)
(* it over Barretenberg's compress_native and take that function to have   *)
(* no collisions.  No function from pairs of field elements to field       *)
(* elements is free of them, so the tree's hashes are natural numbers and  *)
(* its compression is a pairing function.                                  *)
(***************************************************************************)
\* PathHasher::hash for the tree: injective, not symmetric.
compress_injective(left, right) ==
    ((left + right) * (left + right + 1)) \div 2 + right

compress_injective_closure ==
    [left \in Nat, right \in Nat |-> compress_injective(left, right)]

\* The messages the tests store; 0 is the all-zero message.
Messages == 0..MaxMessage

\* MessageHasher::hash(message): the leaf a message is stored as.
hash_message(message) == message + 1

TreeIndices == 0..(Pow(2, TreeDepth) - 1)

\* MerkleTree::new(depth, ..): every leaf is the all-zero message.
MerkleTreeNew == [index \in TreeIndices |-> hash_message(0)]

\* The node at a level (0 the leaves) and a position in the level.
RECURSIVE tree_node(_, _, _)
tree_node(t, level, pos) ==
    IF level = 0 THEN t[pos]
    ELSE compress_injective(tree_node(t, level - 1, 2 * pos),
                            tree_node(t, level - 1, 2 * pos + 1))

\* MerkleTree::root
tree_root(t) == tree_node(t, TreeDepth, 0)

\* MerkleTree::get_hash_path(index): for each level from the leaves up, the
\* pair <<left, right>> of children that holds the node on the way of index.
get_hash_path(t, index) ==
    [l \in 1..TreeDepth |->
        LET parent == index \div Pow(2, l)
        IN  <<tree_node(t, l - 1, 2 * parent),
              tree_node(t, l - 1, 2 * parent + 1)>>]

\* MerkleTree::update_leaf(index, leaf)
update_leaf(t, index, leaf) == [t EXCEPT ![index] = leaf]

\* MerkleTree::update_message(index, message)
update_message(t, index, message) ==
    update_leaf(t, index, hash_message(message))

\* A faulty variant of sibling_of: the node on the way of the index is taken.
sibling_of_swapped(path_pair, path_bit) ==
    IF ~path_bit THEN path_pair[1] ELSE path_pair[2]

\* let hash = if !path_bit { path_pair.1 } else { path_pair.0 };
sibling_of(path_pair, path_bit) ==
    IF ~path_bit THEN path_pair[2] ELSE path_pair[1]

\* The hash_path_ref the tests build from the tree's hash path.
hash_path_ref(hash_path, index) ==
    [i \in 1..Len(hash_path) |-> sibling_of(hash_path[i], index_bits(index)[i])]

\* root == calculate_merkle_root(compress_native, hash_path_ref, index, leaf)
is_leaf_in_tree(t, index, leaf) ==
    LET calculated_merkle_root ==
            calculate_merkle_root(compress_injective_closure,
                                  hash_path_ref(get_hash_path(t, index), index),
                                  index, leaf)
    IN  ~calculated_merkle_root.panicked
        /\ tree_root(t) = calculated_merkle_root.value

(***************************************************************************)
(* solve_black_box_function_call, one operator per match arm.  A call is   *)
(* [name, inputs, outputs]: inputs a sequence of [witness, num_bits],      *)
(* outputs a sequence of witnesses.                                        *)
(***************************************************************************)
\* A faulty variant of OutputSlot: the result lands on the input witness of the
\* same position when the call has one.
OutputSlotFromInputs(call, i) ==
    IF Len(call.inputs) >= i THEN call.inputs[i].witness ELSE call.outputs[i]

\* func_call.outputs[i - 1]: the key the i-th result is inserted under.
OutputSlot(call, i) == call.outputs[i]

\* A faulty variant of SolveUnsupported: the error always carries AES.
SolveUnsupportedAsAES(map, call) ==
    Outcome(UnsupportedBlackBoxFunc("AES"), map, {})

\* BlackBoxFunc::AES | BlackBoxFunc::Keccak256
SolveUnsupported(map, call) ==
    Outcome(UnsupportedBlackBoxFunc(call.name), map, {})

\* A faulty variant of MembershipResult: a mismatch is written as one.
MembershipResultSwapped(calculated_merkle_root, root) ==
    IF calculated_merkle_root = root THEN Zero ELSE One

\* if &calculated_merkle_root == root { one } else { zero }
MembershipResult(calculated_merkle_root, root) ==
    IF calculated_merkle_root = root THEN One ELSE Zero

\* BlackBoxFunc::MerkleMembership
SolveMerkleMembership(map, call) ==
    LET ins == call.inputs
        n == Len(ins)
        head == ReadInputs(map, ins, 1, IF n < 3 THEN n ELSE 3)
        path == ReadInputs(map, ins, 4, n)
        rd == head.read \cup path.read
    IN  IF head.missing # 0 THEN Outcome(MissingAssignment(head.missing), map, head.read)
        ELSE IF n = 0 THEN Outcome(Panic("expected a root"), map, head.read)
        ELSE IF n = 1 THEN Outcome(Panic("expected a leaf"), map, head.read)
        ELSE IF n = 2 THEN Outcome(Panic("expected an index"), map, head.read)
        ELSE IF path.missing # 0 THEN Outcome(MissingAssignment(path.missing), map, rd)
        ELSE LET root == head.values[1]
                 leaf == head.values[2]
                 index == head.values[3]
                 calculated == calculate_merkle_root(compress_native_closure,
                                                     path.values, index, leaf)
             IN  IF calculated.panicked
                 THEN Outcome(Panic("index out of bounds: index_bits"), map, rd)
                 ELSE IF Len(call.outputs) = 0
                 THEN Outcome(Panic("index out of bounds: outputs[0]"), map, rd)
                 ELSE Outcome(Solved,
                              insert(map, OutputSlot(call, 1),
                                     MembershipResult(calculated.value, root)),
                              rd)

\* BlackBoxFunc::SchnorrVerify
SolveSchnorrVerify(map, call) ==
    LET ins == call.inputs
        n == Len(ins)
        key == ReadInputs(map, ins, 1, IF n < 2 THEN n ELSE 2)
        sig == ReadInputs(map, ins, 3, IF n < 2 + SigLen THEN n ELSE 2 + SigLen)
        msg == ReadInputs(map, ins, 3 + SigLen, n)
    IN  IF key.missing # 0 THEN Outcome(MissingAssignment(key.missing), map, key.read)
        ELSE IF n = 0
        THEN Outcome(Panic("expected x component for public key"), map, key.read)
        ELSE IF n = 1
        THEN Outcome(Panic("expected y component for public key"), map, key.read)
        ELSE IF sig.missing # 0
        THEN Outcome(MissingAssignment(sig.missing), map, key.read \cup sig.read)
        ELSE IF n < 2 + SigLen
        THEN Outcome(Panic("signature should be 64 bytes long"), map,
                     key.read \cup sig.read)
        ELSE IF msg.missing # 0
        THEN Outcome(MissingAssignment(msg.missing), map,
                     key.read \cup sig.read \cup msg.read)
        ELSE LET rd == key.read \cup sig.read \cup msg.read
                 pub_key == to_be_bytes(key.values[1]) \o to_be_bytes(key.values[2])
                 signature == [i \in 1..SigLen |-> last_byte(sig.values[i])]
                 message == [i \in 1..Len(msg.values) |-> last_byte(msg.values[i])]
                 valid_signature == verify_signature(pub_key, signature, message)
             IN  IF Len(call.outputs) = 0
                 THEN Outcome(Panic("index out of bounds: outputs[0]"), map, rd)
                 ELSE Outcome(Solved,
                              insert(map, OutputSlot(call, 1),
                                     IF valid_signature THEN One ELSE Zero),
                              rd)

\* insert(outputs[0], x); insert(outputs[1], y): an index past the end of
\* outputs panics after the inserts before it were made.
InsertPoint(map, call, point, rd) ==
    IF Len(call.outputs) = 0
    THEN Outcome(Panic("index out of bounds: outputs[0]"), map, rd)
    ELSE LET first == insert(map, OutputSlot(call, 1), point[1])
         IN  IF Len(call.outputs) = 1
             THEN Outcome(Panic("index out of bounds: outputs[1]"), first, rd)
             ELSE Outcome(Solved, insert(first, OutputSlot(call, 2), point[2]), rd)

\* BlackBoxFunc::Pedersen
SolvePedersen(map, call) ==
    LET scalars == ReadInputs(map, call.inputs, 1, Len(call.inputs))
    IN  IF scalars.missing # 0
        THEN Outcome(MissingAssignment(scalars.missing), map, scalars.read)
        ELSE InsertPoint(map, call, encrypt(scalars.values), scalars.read)

\* BlackBoxFunc::HashToField128Security
SolveHashToField128Security(map, call) ==
    LET ins == call.inputs
        r == ReadInputs(map, ins, 1, Len(ins))
        RECURSIVE Fed(_)
        Fed(i) == IF i > Len(ins) THEN <<>>
                  ELSE fetch_nearest_bytes(r.values[i], ins[i].num_bits) \o Fed(i + 1)
    IN  IF r.missing # 0 THEN Outcome(MissingAssignment(r.missing), map, r.read)
        ELSE IF Len(call.outputs) # 1
        THEN Outcome(Panic("assertion failed: outputs.len() == 1"), map, r.read)
        ELSE Outcome(Solved,
                     insert(map, OutputSlot(call, 1), blake2s_reduce(Fed(1))),
                     r.read)

\* BlackBoxFunc::FixedBaseScalarMul
SolveFixedBaseScalarMul(map, call) ==
    IF Len(call.inputs) = 0
    THEN Outcome(Panic("index out of bounds: inputs[0]"), map, {})
    ELSE LET scalar == ReadInputs(map, call.inputs, 1, 1)
         IN  IF scalar.missing # 0
             THEN Outcome(MissingAssignment(scalar.missing), map, scalar.read)
             ELSE InsertPoint(map, call, fixed_base(scalar.values[1]), scalar.read)

\* The kinds this crate resolves itself, and the kinds it refuses.  SHA256,
\* Blake2s, EcdsaSecp256k1, AND, XOR and RANGE are handed to the acvm
\* crate's solvers and are not modelled.
ResolvedKinds ==
    {"MerkleMembership", "SchnorrVerify", "Pedersen",
     "HashToField128Security", "FixedBaseScalarMul"}
UnsupportedKinds == {"AES", "Keccak256"}
BlackBoxFunc == ResolvedKinds \cup UnsupportedKinds

\* match func_call.name { ... }
solve_black_box_function_call(map, call) ==
    CASE call.name \in UnsupportedKinds -> SolveUnsupported(map, call)
      [] call.name = "MerkleMembership" -> SolveMerkleMembership(map, call)
      [] call.name = "SchnorrVerify" -> SolveSchnorrVerify(map, call)
      [] call.name = "Pedersen" -> SolvePedersen(map, call)
      [] call.name = "HashToField128Security" ->
            SolveHashToField128Security(map, call)
      [] call.name = "FixedBaseScalarMul" -> SolveFixedBaseScalarMul(map, call)

\* The arm of the resolver's match that a kind selects: the routine the arm
\* runs, "UnsupportedBlackBoxFunc" for the arm that refuses, and "no arm"
\* for a kind the match does not list.
resolution_routine(name) ==
    CASE name = "SHA256" -> "hash::sha256"
      [] name = "Blake2s" -> "hash::blake2s"
      [] name = "EcdsaSecp256k1" -> "signature::ecdsa::secp256k1_prehashed"
      [] name \in UnsupportedKinds -> "UnsupportedBlackBoxFunc"
      [] name = "MerkleMembership" -> "calculate_merkle_root"
      [] name = "SchnorrVerify" -> "verify_signature"
      [] name = "Pedersen" -> "encrypt"
      [] name = "HashToField128Security" -> "Blake2s::digest"
      [] name = "FixedBaseScalarMul" -> "fixed_base"
      [] name \in {"AND", "XOR"} -> "logic::solve_logic_opcode"
      [] name = "RANGE" -> "range::solve_range_opcode"
      [] OTHER -> "no arm"

\* The kinds of the BlackBoxFunc enum that black_box_function_supported
\* matches on.
SupportedOpcodeEnum ==
    {"AND", "XOR", "RANGE", "SHA256", "Blake2s", "ComputeMerkleRoot",
     "SchnorrVerify", "Pedersen", "HashToField128Security", "EcdsaSecp256k1",
     "FixedBaseScalarMul", "VerifyProof", "AES", "Keccak256"}

\* ProofSystemCompiler::black_box_function_supported
black_box_function_supported(opcode) ==
    CASE opcode \in {"AND", "XOR", "RANGE", "SHA256", "Blake2s",
                     "ComputeMerkleRoot", "SchnorrVerify", "Pedersen",
                     "HashToField128Security", "EcdsaSecp256k1",
                     "FixedBaseScalarMul", "VerifyProof"} -> TRUE
      [] opcode \in {"AES", "Keccak256"} -> FALSE

(***************************************************************************)
(* The calls the model issues.  An input list starts at any witness and    *)
(* either repeats it or walks the witnesses cyclically; an output list     *)
(* walks them.  Outputs may be inputs of the same call.                    *)
(***************************************************************************)
Run(start, stride, n) ==
    [i \in 1..n |-> ((start - 1 + stride * (i - 1)) % MaxWitness) + 1]

WitnessLists(strides, maxLen) ==
    {Run(s, k, n) : s \in Witness, k \in strides, n \in 0..maxLen}

\* The declared widths of a call's inputs, as a pattern of period two:
\* every input a byte wide, or two-byte and one-byte inputs in turn.  Only
\* HashToField128Security reads num_bits.
NumBitsChoices(name) ==
    IF name = "HashToField128Security" THEN {<<8, 8>>, <<16, 8>>}
    ELSE {<<8, 8>>}

FunctionInputs(ws, num_bits) ==
    [i \in 1..Len(ws) |->
        [witness |-> ws[i], num_bits |-> num_bits[((i - 1) % 2) + 1]]]

Calls ==
    UNION {{[name |-> nm, inputs |-> FunctionInputs(ws, b), outputs |-> outs] :
               ws \in WitnessLists({0, 1}, MaxInputs),
               b \in NumBitsChoices(nm), outs \in WitnessLists({1}, MaxOutputs)} :
           nm \in BlackBoxFunc}

NoCall == [name |-> "", inputs |-> <<>>, outputs |-> <<>>]

\* solve_intermediate_witness has not returned.
NoReturn == [returned |-> FALSE, js_map |-> <<>>]

(***************************************************************************)
(* The solver loop around the resolver: it takes the next black-box call   *)
(* of the circuit, resolves it, and goes on only after Ok(Solved).         *)
(***************************************************************************)
PureIdle == call_fn = "none" /\ call_args = <<>> /\ call_out = <<>>

Init ==
    /\ initial_witness \in WitnessMaps
    /\ func_call = NoCall
    /\ result = NoResult
    /\ prev_witness = initial_witness
    /\ reads = {}
    /\ pc = "idle"
    /\ js_return = NoReturn
    /\ opcode_failed = FALSE
    /\ tree = MerkleTreeNew
    /\ PureIdle

\* The solver reaches a black-box opcode.
Call ==
    /\ pc = "idle"
    /\ \E c \in Calls : func_call' = c
    /\ pc' = "called"
    /\ UNCHANGED <<initial_witness, result, prev_witness, reads, pureVars,
                   js_return, opcode_failed>>

\* solve_black_box_function_call(&mut initial_witness, &func_call)
Solve ==
    /\ pc = "called"
    /\ LET out == solve_black_box_function_call(initial_witness, func_call)
       IN  /\ initial_witness' = out.witness_map
           /\ result' = out.result
           /\ reads' = out.reads
           /\ opcode_failed' = (opcode_failed \/ out.result # Solved)
    /\ prev_witness' = initial_witness
    /\ pc' = "returned"
    /\ UNCHANGED <<func_call, pureVars, js_return>>

\* Ok(Solved): the solver moves on to the next opcode.  An Err or a panic
\* ends the solve.
Continue ==
    /\ pc = "returned"
    /\ result = Solved
    /\ func_call' = NoCall
    /\ result' = NoResult
    /\ prev_witness' = initial_witness
    /\ reads' = {}
    /\ pc' = "idle"
    /\ UNCHANGED <<initial_witness, pureVars, js_return, opcode_failed>>

\* A faulty variant of match_solve: an Err of the solver is let through.
match_solve_ignoring_err(solved) == "loading"

\* match plonk.solve(..) { Ok(_) => {}, Err(opcode) => panic!(..) }: where
\* solve_intermediate_witness goes on after the solver returned.
match_solve(solved) == IF solved THEN "loading" ELSE "panicked"

\* plonk.solve returns Ok: every opcode of the circuit was solved.
PlonkSolveOk ==
    /\ pc = "idle"
    /\ pc' = match_solve(TRUE)
    /\ UNCHANGED <<initial_witness, func_call, result, prev_witness, reads,
                   pureVars, js_return, opcode_failed>>

\* plonk.solve returns Err(opcode): the resolver returned an error.
PlonkSolveErr ==
    /\ pc = "returned"
    /\ result.tag = "Err"
    /\ pc' = match_solve(FALSE)
    /\ UNCHANGED <<initial_witness, func_call, result, prev_witness, reads,
                   pureVars, js_return, opcode_failed>>

\* The resolver panicked: the panic unwinds through plonk.solve.
PlonkSolvePanics ==
    /\ pc = "returned"
    /\ result.tag = "Panic"
    /\ pc' = "panicked"
    /\ UNCHANGED <<initial_witness, func_call, result, prev_witness, reads,
                   pureVars, js_return, opcode_failed>>

\* witness_loader returned a promise and the promise resolved: the witness
\* map is converted and handed back.
WitnessLoaderResolves ==
    /\ pc = "loading"
    /\ js_return' = [returned |-> TRUE,
                     js_map |-> witness_map_to_js_map(initial_witness)]
    /\ pc' = "done"
    /\ UNCHANGED <<initial_witness, func_call, result, prev_witness, reads,
                   pureVars, opcode_failed>>

\* witness_loader threw or returned no promise (expect), or the promise was
\* rejected (panic!).
WitnessLoaderRejects ==
    /\ pc = "loading"
    /\ pc' = "panicked"
    /\ UNCHANGED <<initial_witness, func_call, result, prev_witness, reads,
                   pureVars, js_return, opcode_failed>>

Next ==
    \/ Call
    \/ Solve
    \/ Continue
    \/ PlonkSolveOk
    \/ PlonkSolveErr
    \/ PlonkSolvePanics
    \/ WitnessLoaderResolves
    \/ WitnessLoaderRejects

Spec == Init /\ [][Next]_vars

(***************************************************************************)
(* The witness flatteners.                                                 *)
(***************************************************************************)
\* Circuit::num_vars(): current_witness_index + 1.
num_vars(circuit) == circuit.current_witness_index + 1

\* A faulty variant of flatten_witness_map: a witness without a value is skipped.
flatten_witness_map_skipping(circuit, witness_values) ==
    LET RECURSIVE Collect(_)
        Collect(witness_index) ==
            IF witness_index >= num_vars(circuit) THEN <<>>
            ELSE (IF witness_index \in DOMAIN witness_values
                  THEN <<witness_values[witness_index]>> ELSE <<>>)
                 \o Collect(witness_index + 1)
    IN  Collect(1)

\* (1..num_witnesses).map(|i| witness_values.get(&Witness(i))
\*                               .map_or(FieldElement::zero(), |f| *f)).collect()
flatten_witness_map(circuit, witness_values) ==
    LET RECURSIVE Collect(_)
        Collect(witness_index) ==
            IF witness_index >= num_vars(circuit) THEN <<>>
            ELSE <<IF witness_index \in DOMAIN witness_values
                   THEN witness_values[witness_index] ELSE Zero>>
                 \o Collect(witness_index + 1)
    IN  Collect(1)

Max(S) == CHOOSE x \in S : \A y \in S : y <= x

\* A faulty variant of into_values: the indices between the keys are filled with zero.
into_values_gap_filled(map) ==
    IF DOMAIN map = {} THEN <<>>
    ELSE [i \in 1..Max(DOMAIN map) |-> IF i \in DOMAIN map THEN map[i] ELSE Zero]

\* BTreeMap::into_values / BTreeMap::values: the values by ascending key.
RECURSIVE into_values(_)
into_values(map) ==
    IF DOMAIN map = {} THEN <<>>
    ELSE LET first == Min(DOMAIN map)
         IN  <<map[first]>> \o
             into_values([k \in (DOMAIN map) \ {first} |-> map[k]])

\* verify_with_vk: the public inputs handed to Composer::verify_with_vk.
flattened_public_inputs(public_inputs) == into_values(public_inputs)

\* public_input_as_bytes: buffer.extend_from_slice(&assignment.to_be_bytes())
\* for each assignment of public_witness.values().
public_input_as_bytes(public_witness) ==
    LET RECURSIVE Extend(_)
        Extend(values) ==
            IF Len(values) = 0 THEN <<>>
            ELSE to_be_bytes(Head(values)) \o Extend(Tail(values))
    IN  Extend(into_values(public_witness))

\* js_map_to_witness_map: every key is bound to from_hex of its string;
\* expect("bad hex str") panics on a string from_hex refuses.
js_map_to_witness_map(js_map) ==
    IF \E key \in DOMAIN js_map : ~from_hex(js_map[key]).ok
    THEN [panicked |-> TRUE, witness_skeleton |-> EmptyMap]
    ELSE [panicked |-> FALSE,
          witness_skeleton |->
              [key \in DOMAIN js_map |-> from_hex(js_map[key]).value]]

\* intermediate_witness_to_assignment_bytes, up to the Assignments it
\* serialises: for i in 1..num_witnesses { get(&Witness(i)) or panic; push }
\* with num_witnesses = intermediate_witness.len().
intermediate_witness_to_assignment_bytes(js_map) ==
    LET decoded == js_map_to_witness_map(js_map)
        intermediate_witness == decoded.witness_skeleton
        num_witnesses == Cardinality(DOMAIN intermediate_witness)
        RECURSIVE Push(_, _)
        Push(i, sorted_witness) ==
            IF i >= num_witnesses
            THEN [panicked |-> FALSE, sorted_witness |-> sorted_witness]
            ELSE IF i \notin DOMAIN intermediate_witness
            THEN [panicked |-> TRUE, sorted_witness |-> <<>>]
            ELSE Push(i + 1, Append(sorted_witness, intermediate_witness[i]))
    IN  IF decoded.panicked THEN [panicked |-> TRUE, sorted_witness |-> <<>>]
        ELSE Push(1, <<>>)

(***************************************************************************)
(* Field-chunk decoding.  The engine's byte output (Composer::             *)
(* proof_as_fields, Composer::verification_key_as_fields) is an input.     *)
(***************************************************************************)
\* A faulty variant of chunks: the windows overlap, one starting at every byte.
chunks_overlapping(bytes, size) ==
    IF Len(bytes) < size THEN <<>>
    ELSE [j \in 1..(Len(bytes) - size + 1) |-> SubSeq(bytes, j, j + size - 1)]

\* slice::chunks(size): consecutive slices of size bytes; the last one is
\* shorter when the length is not a multiple of size.
chunks(bytes, size) ==
    [j \in 1..((Len(bytes) + size - 1) \div size) |->
        SubSeq(bytes, (j - 1) * size + 1,
               IF j * size < Len(bytes) THEN j * size ELSE Len(bytes))]

\* for bytes in slices { fields.push(FieldElement::from_be_bytes_reduce(bytes)) }
fields_of_slices(slices) ==
    [j \in 1..Len(slices) |-> from_be_bytes_reduce(slices[j])]

proof_as_fields(proof_fields_as_bytes) ==
    fields_of_slices(chunks(proof_fields_as_bytes, FieldBytes))

vk_as_fields(vk_fields_as_bytes, vk_hash_as_bytes) ==
    [vk_fields |-> fields_of_slices(chunks(vk_fields_as_bytes, FieldBytes)),
     vk_hash |-> from_be_bytes_reduce(vk_hash_as_bytes)]

(***************************************************************************)
(* The pure functions, applied to every input of the bounded sets.         *)
(***************************************************************************)
SeqsUpTo(S, n) == UNION {[1..k -> S] : k \in 0..n}

Circuits == [current_witness_index : 0..(MaxVars - 1)]

InitPure ==
    /\ initial_witness = EmptyMap
    /\ func_call = NoCall
    /\ result = NoResult
    /\ prev_witness = EmptyMap
    /\ reads = {}
    /\ pc = "idle"
    /\ js_return = NoReturn
    /\ opcode_failed = FALSE
    /\ tree = MerkleTreeNew
    /\ PureIdle

CallCalculateMerkleRoot ==
    /\ PureIdle
    /\ \E hash_path \in SeqsUpTo(FieldElement, MaxPath),
          index \in FieldElement, leaf \in FieldElement :
          /\ call_args' = [hash_path |-> hash_path, index |-> index,
                           leaf |-> leaf]
          /\ call_out' = calculate_merkle_root(compress_native_closure,
                                             hash_path, index, leaf)
    /\ call_fn' = "calculate_merkle_root"
    /\ UNCHANGED <<solveVars, tree>>

CallFlattenWitnessMap ==
    /\ PureIdle
    /\ \E circuit \in Circuits, witness_values \in WitnessMaps :
          /\ call_args' = [circuit |-> circuit,
                           witness_values |-> witness_values]
          /\ call_out' = flatten_witness_map(circuit, witness_values)
    /\ call_fn' = "flatten_witness_map"
    /\ UNCHANGED <<solveVars, tree>>

CallVerifyWithVk ==
    /\ PureIdle
    /\ \E public_inputs \in WitnessMaps :
          /\ call_args' = public_inputs
          /\ call_out' = flattened_public_inputs(public_inputs)
    /\ call_fn' = "verify_with_vk"
    /\ UNCHANGED <<solveVars, tree>>

CallPublicInputAsBytes ==
    /\ PureIdle
    /\ \E public_witness \in WitnessMaps :
          /\ call_args' = public_witness
          /\ call_out' = public_input_as_bytes(public_witness)
    /\ call_fn' = "public_input_as_bytes"
    /\ UNCHANGED <<solveVars, tree>>

\* The bytes the engine's outputs are made of.
ByteChoices == {1, 255}

CallProofAsFields ==
    /\ PureIdle
    /\ \E bytes \in SeqsUpTo(ByteChoices, MaxChunks * FieldBytes) :
          /\ call_args' = [fields_as_bytes |-> bytes, hash_as_bytes |-> <<>>]
          /\ call_out' = [fields |-> proof_as_fields(bytes), hash |-> Zero]
    /\ call_fn' = "proof_as_fields"
    /\ UNCHANGED <<solveVars, tree>>

CallVkAsFields ==
    /\ PureIdle
    /\ \E bytes \in SeqsUpTo(ByteChoices, MaxChunks * FieldBytes),
          hash \in [1..FieldBytes -> ByteChoices] :
          /\ call_args' = [fields_as_bytes |-> bytes, hash_as_bytes |-> hash]
          /\ LET out == vk_as_fields(bytes, hash)
             IN  call_out' = [fields |-> out.vk_fields, hash |-> out.vk_hash]
    /\ call_fn' = "vk_as_fields"
    /\ UNCHANGED <<solveVars, tree>>

\* The strings of a js map: 0x-prefixed and bare, values below and above the
\* field order, and one with an odd number of digits.
HexStrings ==
    {[prefix |-> TRUE, digits |-> <<0, 0, 0, 0>>],
     [prefix |-> TRUE, digits |-> <<0, 0, 0, 1>>],
     [prefix |-> FALSE, digits |-> <<0, 2>>],
     [prefix |-> TRUE, digits |-> <<0, 1, 0, 1>>],
     [prefix |-> TRUE, digits |-> <<1>>]}

JsMaps == UNION {[D -> HexStrings] : D \in SUBSET Witness}

CallIntermediateWitnessToAssignmentBytes ==
    /\ PureIdle
    /\ \E intermediate_witness \in JsMaps :
          /\ call_args' = intermediate_witness
          /\ call_out' =
                 intermediate_witness_to_assignment_bytes(intermediate_witness)
    /\ call_fn' = "intermediate_witness_to_assignment_bytes"
    /\ UNCHANGED <<solveVars, tree>>

CallBlackBoxFunctionSupported ==
    /\ PureIdle
    /\ \E opcode \in SupportedOpcodeEnum :
          /\ call_args' = opcode
          /\ call_out' = black_box_function_supported(opcode)
    /\ call_fn' = "black_box_function_supported"
    /\ UNCHANGED <<solveVars, tree>>

\* The caller takes the value; the next call starts afresh.
ReturnPure ==
    /\ call_fn # "none"
    /\ call_fn' = "none"
    /\ call_args' = <<>>
    /\ call_out' = <<>>
    /\ UNCHANGED <<solveVars, tree>>

NextPure ==
    \/ ReturnPure
    \/ CallCalculateMerkleRoot
    \/ CallFlattenWitnessMap
    \/ CallVerifyWithVk
    \/ CallPublicInputAsBytes
    \/ CallBlackBoxFunctionSupported
    \/ CallProofAsFields
    \/ CallVkAsFields
    \/ CallIntermediateWitnessToAssignmentBytes

PureSpec == InitPure /\ [][NextPure]_vars

(***************************************************************************)
(* The Merkle tree tests: leaves are updated and membership is checked.    *)
(***************************************************************************)
\* One test vector of test_check_membership: the tree is updated when the
\* vector says so, then the message is checked at the index.
TestCheckMembership ==
    /\ PureIdle
    /\ \E index \in TreeIndices, message \in Messages,
          should_update_tree \in BOOLEAN :
          LET leaf == hash_message(message)
              updated == IF should_update_tree
                         THEN update_message(tree, index, message) ELSE tree
          IN  /\ tree' = updated
              /\ call_args' = [index |-> index, leaf |-> leaf,
                               should_update_tree |-> should_update_tree]
              /\ call_out' = is_leaf_in_tree(updated, index, leaf)
    /\ call_fn' = "test_check_membership"
    /\ UNCHANGED solveVars

\* simple_shield: update_leaf at index 0, then the leaf is checked there.
SimpleShield ==
    /\ PureIdle
    /\ \E message \in Messages :
          LET leaf == hash_message(message)
              updated == update_leaf(tree, 0, leaf)
          IN  /\ tree' = updated
              /\ call_args' = [index |-> 0, leaf |-> leaf,
                               should_update_tree |-> TRUE]
              /\ call_out' = is_leaf_in_tree(updated, 0, leaf)
    /\ call_fn' = "simple_shield"
    /\ UNCHANGED solveVars

NextTree == ReturnPure \/ TestCheckMembership \/ SimpleShield

TreeSpec == InitPure /\ [][NextTree]_vars

(***************************************************************************)
(* Properties.                                                             *)
(***************************************************************************)
InputWitnesses(call) == {call.inputs[i].witness : i \in 1..Len(call.inputs)}
OutputWitnesses(call) == {call.outputs[i] : i \in 1..Len(call.outputs)}
InputsResolved(map, call) == InputWitnesses(call) \subseteq DOMAIN map

\* The reference fold of a hash path: bit i of the index (i = 0 the least
\* significant) puts the running hash on the left (0) or the right (1) of
\* path element i; ReferenceFold(.., levels) is the hash after `levels` levels.
RECURSIVE ReferenceFold(_, _, _, _)
ReferenceFold(path, index, leaf, levels) ==
    IF levels = 0 THEN leaf
    ELSE LET below == ReferenceFold(path, index, leaf, levels - 1)
             bit == (index \div Pow(2, levels - 1)) % 2
         IN  IF bit = 0 THEN compress_native(below, path[levels])
             ELSE compress_native(path[levels], below)

\* C1: for every index and leaf and every hash path no longer than the
\* index has bits, calculate_merkle_root returns the reference fold of the
\* path: level i hashes (current, path[i]) when bit i of the index is 0 and
\* (path[i], current) when it is 1, starting from the leaf.
C1_MerkleRootIsReferenceFold ==
    (call_fn = "calculate_merkle_root"
        /\ Len(call_args.hash_path) <= FieldBits) =>
        /\ ~call_out.panicked
        /\ call_out.value =
              ReferenceFold(call_args.hash_path, call_args.index,
                            call_args.leaf, Len(call_args.hash_path))

\* C1's case: a two-level path under index 2 (bits 0 then 1): the leaf is
\* hashed on the left at level 0 and on the right at level 1.
C1_Witness ==
    /\ call_fn = "calculate_merkle_root"
    /\ call_args.index = 2
    /\ call_args.hash_path = <<1, 2>>
    /\ call_args.leaf = 0
    /\ ~call_out.panicked
    /\ call_out.value = compress_native(2, compress_native(0, 1))
    /\ call_out.value # compress_native(compress_native(1, 0), 2)

\* C2: flatten_witness_map returns, for every variable count N and every
\* witness map, exactly N - 1 elements; position i (from 0) is the map's
\* value of Witness(i + 1) when the map has that key and zero otherwise.
C2_FlattenForProvingTotal ==
    call_fn = "flatten_witness_map" =>
        LET N == num_vars(call_args.circuit)
            map == call_args.witness_values
        IN  /\ Len(call_out) = N - 1
            /\ \A i \in 0..(N - 2) :
                  call_out[i + 1] =
                      IF (i + 1) \in DOMAIN map THEN map[i + 1] ELSE Zero

\* C2's case: four variables and a map that binds Witness(2) alone.
C2_Witness ==
    /\ call_fn = "flatten_witness_map"
    /\ num_vars(call_args.circuit) = 4
    /\ DOMAIN call_args.witness_values = {2}
    /\ call_args.witness_values[2] = 2
    /\ call_out = <<0, 2, 0>>

\* The 1-based position of key k among the keys of map, ascending.
Rank(map, k) == Cardinality({j \in DOMAIN map : j <= k})

\* C3: the public inputs handed to the verifier are exactly the values of
\* the entries present in the map, by ascending witness index, with nothing
\* filled in between: as many elements as entries (public_input_as_bytes:
\* as many FieldBytes-byte chunks as entries).
C3_FlattenForVerifyingNoGapFill ==
    /\ call_fn = "verify_with_vk" =>
          /\ Len(call_out) = Cardinality(DOMAIN call_args)
          /\ \A k \in DOMAIN call_args :
                call_out[Rank(call_args, k)] = call_args[k]
    /\ call_fn = "public_input_as_bytes" =>
          /\ Len(call_out) = FieldBytes * Cardinality(DOMAIN call_args)
          /\ \A k \in DOMAIN call_args :
                SubSeq(call_out, FieldBytes * (Rank(call_args, k) - 1) + 1,
                       FieldBytes * Rank(call_args, k))
                    = to_be_bytes(call_args[k])

\* C3's case: a map over the indices 1 and 3 gives two elements.
C3_Witness ==
    /\ call_fn = "verify_with_vk"
    /\ DOMAIN call_args = {1, 3}
    /\ call_args[1] = 2
    /\ call_args[3] = 1
    /\ call_out = <<2, 1>>

\* A SchnorrVerify or MerkleMembership call with the operands and the
\* output slot its kind needs.
WellFormedVerification(call) ==
    CASE call.name = "MerkleMembership" ->
            /\ Len(call.inputs) >= 3
            /\ Len(call.inputs) - 3 <= FieldBits
            /\ Len(call.outputs) >= 1
      [] call.name = "SchnorrVerify" ->
            /\ Len(call.inputs) >= 2 + SigLen
            /\ Len(call.outputs) >= 1
      [] OTHER -> FALSE

ValueOf(map, call, i) == map[call.inputs[i].witness]

\* Whether the check of a well-formed call passes on the values of map.
CheckPasses(map, call) ==
    IF call.name = "MerkleMembership"
    THEN LET path == [i \in 1..(Len(call.inputs) - 3) |->
                        ValueOf(map, call, 3 + i)]
         IN  ReferenceFold(path, ValueOf(map, call, 3), ValueOf(map, call, 2),
                           Len(path)) = ValueOf(map, call, 1)
    ELSE verify_signature(
            to_be_bytes(ValueOf(map, call, 1)) \o to_be_bytes(ValueOf(map, call, 2)),
            [i \in 1..SigLen |-> ValueOf(map, call, 2 + i) % 256],
            [i \in 1..(Len(call.inputs) - 2 - SigLen) |->
                ValueOf(map, call, 2 + SigLen + i) % 256])

\* C4: a well-formed SchnorrVerify or MerkleMembership call whose operand
\* witnesses all have values ends Solved with outputs[0] holding one when
\* the check passes and zero when it fails; a failed check is not an error.
C4_FailedCheckIsAnOutput ==
    (pc = "returned" /\ WellFormedVerification(func_call)
        /\ InputsResolved(prev_witness, func_call)) =>
        /\ result = Solved
        /\ func_call.outputs[1] \in DOMAIN initial_witness
        /\ initial_witness[func_call.outputs[1]] =
              IF CheckPasses(prev_witness, func_call) THEN One ELSE Zero

\* C4's case: a membership check over a one-element path fails and the call
\* is Solved with zero in its output.
C4_Witness ==
    /\ pc = "returned"
    /\ func_call.name = "MerkleMembership"
    /\ Len(func_call.inputs) = 4
    /\ WellFormedVerification(func_call)
    /\ InputsResolved(prev_witness, func_call)
    /\ ~CheckPasses(prev_witness, func_call)
    /\ result = Solved
    /\ initial_witness[func_call.outputs[1]] = Zero

\* C5 (as claimed): whenever a call does not end Solved, the witness map is
\* the map before the call.
C5_Atomic ==
    (pc = "returned" /\ result # Solved) => initial_witness = prev_witness

\* C6 (as claimed): a resolved call removes no key and leaves every key
\* that had a value with that value.
C6_Monotone ==
    (pc = "returned" /\ result = Solved) =>
        \A k \in DOMAIN prev_witness :
            k \in DOMAIN initial_witness /\ initial_witness[k] = prev_witness[k]

\* C7: a call changes the witness map at its declared outputs only (every
\* other key is bound, or not, as before, to the same value), and looks up
\* none but its declared inputs.
C7_Frame ==
    pc = "returned" =>
        /\ \A k \in Witness \ OutputWitnesses(func_call) :
              /\ k \in DOMAIN initial_witness <=> k \in DOMAIN prev_witness
              /\ k \in DOMAIN prev_witness =>
                    initial_witness[k] = prev_witness[k]
        /\ DOMAIN initial_witness \subseteq Witness
        /\ reads \subseteq InputWitnesses(func_call)

\* C7's case: a Pedersen call wrote both outputs next to a witness that is
\* neither an input nor an output of it.
C7_Witness ==
    /\ pc = "returned"
    /\ func_call.name = "Pedersen"
    /\ result = Solved
    /\ initial_witness # prev_witness
    /\ reads = InputWitnesses(func_call)
    /\ reads # {}
    /\ \E k \in DOMAIN prev_witness :
          k \notin OutputWitnesses(func_call) \cup InputWitnesses(func_call)

\* The counts the claim names as wrong for a fixed-arity kind.
MalformedOperandCount(call) ==
    \/ call.name = "MerkleMembership" /\ Len(call.inputs) < 3
    \/ call.name = "SchnorrVerify" /\ Len(call.inputs) < 2 + SigLen
    \/ call.name = "HashToField128Security" /\ Len(call.outputs) # 1
    \/ call.name \in {"Pedersen", "FixedBaseScalarMul"} /\ Len(call.outputs) < 2

\* C8 (as claimed): a call with a wrong operand count, its operands all
\* having values, ends with the error value MalformedOperandCount.
C8_MalformedCountIsAnError ==
    (pc = "returned" /\ MalformedOperandCount(func_call)
        /\ InputsResolved(prev_witness, func_call)) =>
        result.tag = "Err" /\ result.kind = "MalformedOperandCount"

\* The positions of the inputs a call looks up: FixedBaseScalarMul reads
\* inputs[0] alone, every other kind resolved here reads them all.
ReadPositions(call) ==
    IF call.name = "FixedBaseScalarMul"
    THEN {i \in 1..Len(call.inputs) : i = 1}
    ELSE 1..Len(call.inputs)

\* C9: when an input witness the call reads has no value, the call ends
\* with Err(MissingAssignment(w)), w being the first such witness in input
\* order, for every kind this crate resolves.
C9_MissingOperandIsNamed ==
    (pc = "returned" /\ func_call.name \in ResolvedKinds) =>
        LET missing == {i \in ReadPositions(func_call) :
                          func_call.inputs[i].witness \notin DOMAIN prev_witness}
        IN  missing # {} =>
                /\ result.tag = "Err"
                /\ result.kind = "MissingAssignment"
                /\ result.witness = func_call.inputs[Min(missing)].witness
                /\ result.witness \notin DOMAIN prev_witness

\* C9's case: a SchnorrVerify call whose key components have values and
\* whose signature byte has none ends naming the signature's witness.
C9_Witness ==
    /\ pc = "returned"
    /\ func_call.name = "SchnorrVerify"
    /\ Len(func_call.inputs) >= 3
    /\ func_call.inputs[1].witness \in DOMAIN prev_witness
    /\ func_call.inputs[2].witness \in DOMAIN prev_witness
    /\ func_call.inputs[3].witness \notin DOMAIN prev_witness
    /\ result = MissingAssignment(func_call.inputs[3].witness)

\* C10: a call of an unsupported kind ends with
\* Err(UnsupportedBlackBoxFunc(kind)) carrying its own kind, whatever its
\* inputs and the map hold, and the map is as before.
C10_UnsupportedKind ==
    (pc = "returned" /\ func_call.name \in {"AES", "Keccak256"}) =>
        /\ result = UnsupportedBlackBoxFunc(func_call.name)
        /\ initial_witness = prev_witness
        /\ reads = {}

\* C10's case: a Keccak256 call with inputs the map has no values for.
C10_Witness ==
    /\ pc = "returned"
    /\ func_call.name = "Keccak256"
    /\ Len(func_call.inputs) > 0
    /\ ~InputsResolved(prev_witness, func_call)
    /\ prev_witness # EmptyMap
    /\ result = UnsupportedBlackBoxFunc("Keccak256")
    /\ initial_witness = prev_witness

\* C11: black_box_function_supported(kind) is true exactly when the match of
\* solve_black_box_function_call has an arm for the kind that resolves it,
\* that is, an arm other than the one returning UnsupportedBlackBoxFunc.
C11_SupportedIffResolvable ==
    call_fn = "black_box_function_supported" =>
        (call_out <=>
         resolution_routine(call_args) \notin {"UnsupportedBlackBoxFunc", "no arm"})

\* A MerkleMembership call with its operands in place and one output, whose
\* index has a set bit at a position at or past the length of its hash path.
PathShorterThanIndex(map, call) ==
    /\ call.name = "MerkleMembership"
    /\ Len(call.inputs) >= 3
    /\ Len(call.outputs) = 1
    /\ InputsResolved(map, call)
    /\ map[call.inputs[3].witness] >= Pow(2, Len(call.inputs) - 3)

\* C12: a MerkleMembership call whose hash path is shorter than the depth its
\* index requires ends with an OutOfRange error and writes no membership
\* result.
C12_ShortPathIsOutOfRange ==
    (pc = "returned" /\ PathShorterThanIndex(prev_witness, func_call)) =>
        /\ result.tag = "Err"
        /\ result.kind = "OutOfRange"
        /\ initial_witness = prev_witness

\* C16: solve_intermediate_witness hands a witness map back only after the
\* solver solved every opcode and the witness loader's promise resolved; once
\* an opcode has failed to resolve, no witness map is ever handed back.
C16_NoMapFromFailedSolve ==
    /\ [](js_return.returned => (~opcode_failed /\ pc = "done"))
    /\ [][opcode_failed => (opcode_failed' /\ ~js_return'.returned)]_vars

\* A solve that the resolver's error on an opcode aborted.
C16_Witness ==
    /\ pc = "panicked"
    /\ opcode_failed
    /\ result.tag = "Err"
    /\ DOMAIN initial_witness # {}
    /\ ~js_return.returned

\* The bytes of the declared width of each input, in input order: byte k of
\* a value v is (v div 256^k) mod 256, and an input of num_bits bits gives
\* its bytes 0 .. ceil(num_bits / 8) - 1, lowest first.
RECURSIVE DeclaredBytes(_, _, _)
DeclaredBytes(map, inputs, i) ==
    IF i > Len(inputs) THEN <<>>
    ELSE LET v == map[inputs[i].witness]
             width == (inputs[i].num_bits + 7) \div 8
         IN  [k \in 1..width |-> (v \div Pow(256, k - 1)) % 256]
             \o DeclaredBytes(map, inputs, i + 1)

\* Every input is declared a byte wide and holds a single byte.
SingleByteInputs(map, inputs) ==
    \A i \in 1..Len(inputs) :
        inputs[i].num_bits = 8 /\ map[inputs[i].witness] < 256

\* C15: a HashToField128Security call with its inputs in place and one output
\* writes at that output the reduced digest of the declared-width low-order
\* bytes of its inputs, in input order; for single-byte inputs of width 8
\* that is the reduced digest of the input values as raw bytes.
C15_HashesDeclaredWidthBytes ==
    (/\ pc = "returned"
     /\ func_call.name = "HashToField128Security"
     /\ Len(func_call.outputs) = 1
     /\ InputsResolved(prev_witness, func_call)) =>
        /\ result = Solved
        /\ initial_witness[func_call.outputs[1]] =
               blake2s_reduce(DeclaredBytes(prev_witness, func_call.inputs, 1))
        /\ SingleByteInputs(prev_witness, func_call.inputs) =>
               initial_witness[func_call.outputs[1]] =
                   blake2s_reduce([i \in 1..Len(func_call.inputs) |->
                       prev_witness[func_call.inputs[i].witness]])

\* A solved call with both a two-byte and a one-byte input.
C15_Witness ==
    /\ pc = "returned"
    /\ func_call.name = "HashToField128Security"
    /\ result = Solved
    /\ Len(func_call.inputs) >= 2
    /\ func_call.inputs[1].num_bits = 16
    /\ func_call.inputs[2].num_bits = 8
    /\ prev_witness[func_call.inputs[2].witness] # 0

\* The big-endian integer that window j (from 0) of FieldBytes bytes spells:
\* the byte at offset i of the window weighs 256^(FieldBytes - 1 - i).
RECURSIVE WindowValue(_, _, _)
WindowValue(bytes, j, i) ==
    IF i = FieldBytes THEN 0
    ELSE bytes[FieldBytes * j + i + 1] * Pow(256, FieldBytes - 1 - i)
         + WindowValue(bytes, j, i + 1)

\* C14: proof_as_fields and vk_as_fields turn a byte output of k field
\* widths into exactly k field elements, element j (from 0) being the
\* big-endian value of bytes [width * j, width * j + width) reduced modulo the
\* field order.
C14_ChunksAreBigEndianWindows ==
    (/\ call_fn \in {"proof_as_fields", "vk_as_fields"}
     /\ Len(call_args.fields_as_bytes) % FieldBytes = 0) =>
        LET bytes == call_args.fields_as_bytes
            k == Len(bytes) \div FieldBytes
        IN  /\ Len(call_out.fields) = k
            /\ \A j \in 0..(k - 1) :
                   call_out.fields[j + 1] = WindowValue(bytes, j, 0) % Modulus

\* A verification key of three field widths decoded into three elements
\* that are not all the same.
C14_Witness ==
    /\ call_fn = "vk_as_fields"
    /\ Len(call_args.fields_as_bytes) = 3 * FieldBytes
    /\ Len(call_out.fields) = 3
    /\ call_out.fields[1] # call_out.fields[2]
    /\ call_out.fields[2] # call_out.fields[3]

\* C17: for a js map whose keys are exactly 1..n,
\* intermediate_witness_to_assignment_bytes collects the n values that
\* flatten_witness_map gives for the same map and a circuit of n + 1
\* variables, the value of Witness(i + 1) at position i.
C17_FlattenersAgreeOnDenseMaps ==
    (/\ call_fn = "intermediate_witness_to_assignment_bytes"
     /\ ~js_map_to_witness_map(call_args).panicked
     /\ DOMAIN call_args = 1..Cardinality(DOMAIN call_args)) =>
        LET n == Cardinality(DOMAIN call_args)
            witness_values == js_map_to_witness_map(call_args).witness_skeleton
        IN  /\ ~call_out.panicked
            /\ call_out.sorted_witness =
                   flatten_witness_map([current_witness_index |-> n],
                                       witness_values)

\* C13: after any updates of the tree, the root recomputed from the tree's
\* hash path for an index and a candidate leaf is the tree's root exactly
\* when the candidate is the leaf stored at the index; so the all-zero
\* message verifies at an index never updated and another message does not.
C13_MembershipIffStoredLeaf ==
    call_fn \in {"test_check_membership", "simple_shield"} =>
        (call_out <=> call_args.leaf = tree[call_args.index])

\* A check without an update, on a tree that holds both messages, of the
\* non-zero message at an index that stores it.
C13_Witness ==
    /\ call_fn = "test_check_membership"
    /\ ~call_args.should_update_tree
    /\ call_out
    /\ call_args.leaf = hash_message(1)
    /\ tree[call_args.index] = hash_message(1)
    /\ \E index \in TreeIndices : tree[index] = hash_message(0)

====
